---- MODULE Spec2Model ----
(***************************************************************************)
(* The query execution pipeline of StarbaseDB (src/src/handler.ts): the    *)
(* HTTP entry point (StarbaseDB.handle, queryRoute, expireCache) and the   *)
(* operations it imports (executeQuery, executeTransaction,                *)
(* executeExternalQuery, executeSDKQuery, transformRawResults).            *)
(*                                                                         *)
(* The allowlist, the row-level-security rewrite, the cache and the        *)
(* internal engine are modules of the repository that the source tree      *)
(* only imports (./allowlist, ./rls, ./cache, dataSource.rpc); they are    *)
(* modelled from the specification of the gateway.                        *)
(***************************************************************************)
EXTENDS Integers, Sequences, FiniteSets, TLC

(***************************************************************************)
(* Bounds of the model.                                                    *)
(***************************************************************************)
\* The clock advances at most MaxTicks times, one second per tick.
MaxTicks == 2
\* A transaction batch has at most MaxBatch elements.
MaxBatch == 2
\* At most MaxSweeps expiry sweeps are in flight to the engine at a time.
MaxSweeps == 1
\* A statement handed to the hosted proxy has at most MaxSql tokens and its
\* params array at most MaxParams values.
MaxSql == 3
MaxParams == 2
\* A raw result has at most MaxColumns columns and MaxRows rows.
MaxColumns == 2
MaxRows == 2
MaxInstances == 2
\* The calls of executeQuery that are in flight at once.
MaxCalls == 2

(***************************************************************************)
(* JavaScript values.  Every value is a record [tag, v]; values with the   *)
(* same tag carry the same kind of v.                                      *)
(***************************************************************************)
Undefined == [tag |-> "undefined", v |-> <<>>]
JNull == [tag |-> "null", v |-> <<>>]
JBool(b) == [tag |-> "boolean", v |-> <<b>>]
JNumber(n) == [tag |-> "number", v |-> <<n>>]
\* A string is the sequence of its tokens; " " is a white-space token.
JString(s) == [tag |-> "string", v |-> s]
JArray(s) == [tag |-> "array", v |-> s]
\* An object is the sequence of its <<key, value>> pairs, in key order.
JObject(pairs) == [tag |-> "object", v |-> pairs]

\* typeof x
TypeOf(x) ==
  CASE x.tag = "undefined" -> "undefined"
    [] x.tag = "boolean" -> "boolean"
    [] x.tag = "number" -> "number"
    [] x.tag = "string" -> "string"
    [] OTHER -> "object"

\* Array.isArray(x)
IsArray(x) == x.tag = "array"

\* !x for the values the handlers test
Falsy(x) ==
  \/ x.tag \in {"undefined", "null"}
  \/ x.tag = "string" /\ x.v = <<>>
  \/ x.tag = "boolean" /\ x.v = <<FALSE>>
  \/ x.tag = "number" /\ x.v = <<0>>

\* An optional configuration value v (a string, "undefined" when the field
\* is not set) ?? d
Nullish(v, d) == IF v = "undefined" THEN d ELSE v = "true"

(***************************************************************************)
(* SQL statements, as token sequences.                                     *)
(***************************************************************************)
SelT == <<"SELECT", "t">>
SelP == <<"SELECT", "p">>
PutT == <<"REPLACE", "t">>
SelX == <<"SELECT", "x">>

TableOf(sql) == IF Len(sql) >= 2 THEN sql[2] ELSE ""

\* The tables the engine holds; t and p are on the allowlist, and p carries
\* a row-level policy.
EngineTables == {"t", "p"}
AllowedTables == {"t", "p"}
PolicyTables == {"p"}

(***************************************************************************)
(* Results.                                                                *)
(***************************************************************************)
\* A row mapping is the sequence of its <<column, value>> pairs.
ObjectResult(rows) == [tag |-> "rows", v |-> rows]
RawResult(columns, rows, read, written) ==
  [tag |-> "raw",
   v |-> [columns |-> columns, rows |-> rows,
          meta |-> [rows_read |-> read, rows_written |-> written]]]
ResultList(items) == [tag |-> "list", v |-> items]

\* How a call ended: a value returned, or an Error thrown.
Returned(value) == [status |-> "ok", value |-> value, message |-> ""]
Thrown(message) == [status |-> "error", value |-> Undefined, message |-> message]

(***************************************************************************)
(* Result Shape Transformer (transformRawResults, afterQuery).             *)
(***************************************************************************)
HasKey(obj, k) == \E i \in 1..Len(obj) : obj[i][1] = k

\* obj[k], undefined when obj has no key k
GetKey(obj, k) ==
  IF HasKey(obj, k)
    THEN obj[CHOOSE i \in 1..Len(obj) : obj[i][1] = k][2]
    ELSE Undefined

\* The keys that are canonical array indices, and the index one stands for.
Indices == 0..9
Numerals == [n \in Indices |-> ToString(n)]
IntegerLike(k) == \E n \in Indices : Numerals[n] = k
IndexOf(k) == CHOOSE n \in Indices : Numerals[n] = k

\* Where a new key k goes among the pairs of obj: an integer-like key goes
\* after the smaller integer-like keys and before every other key, any
\* other key goes last.
Slot(obj, k) ==
  IF IntegerLike(k)
    THEN Cardinality({i \in 1..Len(obj) :
                        /\ IntegerLike(obj[i][1])
                        /\ IndexOf(obj[i][1]) < IndexOf(k)})
    ELSE Len(obj)

\* obj[k] = val: an existing key keeps its place, a new key takes its slot
SetKey(obj, k, val) ==
  IF HasKey(obj, k)
    THEN [i \in 1..Len(obj) |-> IF obj[i][1] = k THEN <<k, val>> ELSE obj[i]]
    ELSE SubSeq(obj, 1, Slot(obj, k)) \o <<<<k, val>>>>
           \o SubSeq(obj, Slot(obj, k) + 1, Len(obj))

\* row[index], undefined past the end of the row
At(row, i) == IF i \in 1..Len(row) THEN row[i] ELSE Undefined

\* Object.keys(obj)
Keys(obj) == [i \in 1..Len(obj) |-> obj[i][1]]

RECURSIVE ZipRow_Shifted(_, _, _, _)
\* Variant: column i takes the value after its own.
ZipRow_Shifted(columns, row, i, obj) ==
  IF i > Len(columns) THEN obj
  ELSE ZipRow_Shifted(columns, row, i + 1,
                      SetKey(obj, columns[i], At(row, i + 1)))

RECURSIVE ZipRow(_, _, _, _)
\* columns.reduce((obj, column, index) => { obj[column] = row[index] }, {})
ZipRow(columns, row, i, obj) ==
  IF i > Len(columns) THEN obj
  ELSE ZipRow(columns, row, i + 1, SetKey(obj, columns[i], At(row, i)))

transformRawResults(result, direction) ==
  IF direction = "from"
    THEN ObjectResult([r \in 1..Len(result.v.rows) |->
                         ZipRow(result.v.columns, result.v.rows[r], 1, <<>>)])
  ELSE IF direction = "to"
    THEN LET columns == IF Len(result.v) = 0 THEN <<>> ELSE Keys(result.v[1])
             rows == [r \in 1..Len(result.v) |->
                        [c \in 1..Len(columns) |-> GetKey(result.v[r], columns[c])]]
         IN RawResult(columns, rows, Len(rows), 0)
  ELSE result

\* Variant: the result goes back as the backend gave it.
afterQuery_Untouched(sql, result, isRaw, dataSource, config) == result

afterQuery(sql, result, isRaw, dataSource, config) ==
  LET objects == IF isRaw THEN transformRawResults(result, "from") ELSE result
  IN IF isRaw THEN transformRawResults(objects, "to") ELSE objects

(***************************************************************************)
(* The pre-query hook: no third-party logic is installed.                  *)
(***************************************************************************)
beforeQuery(sql, params, dataSource, config) == [sql |-> sql, params |-> params]

(***************************************************************************)
(* Security Policy Enforcer (./allowlist, ./rls).                          *)
(***************************************************************************)
\* TRUE when the statement may proceed; FALSE stands for the rejection the
\* stage throws.  A no-op when the feature is off.
isQueryAllowed(sql, isEnabled, dataSource, config) ==
  ~isEnabled \/ TableOf(sql) \in AllowedTables

\* The row-visibility predicate, in the dialect's quoting.
RlsPredicate(dialect) ==
  IF dialect = "postgres" THEN <<"WHERE", "\"owner\"=ctx">>
  ELSE <<"WHERE", "owner=ctx">>

\* A no-op when the feature is off; a statement on a table with a policy
\* gets the predicate injected.
applyRLS(sql, isEnabled, dialect, dataSource, config) ==
  IF isEnabled /\ TableOf(sql) \in PolicyTables
    THEN sql \o RlsPredicate(dialect)
    ELSE sql

(***************************************************************************)
(* Cache Manager (./cache).  The cache is the set of its entries, at most  *)
(* one per (sql, params).                                                  *)
(***************************************************************************)
\* Time-to-live of an entry, in seconds.
CacheTTL == 1

Expired(e, t) == e.timestamp + e.ttl * 1000 < t

SameKey(e, sql, params) == e.sql = sql /\ e.params = params

\* lookup: the live entry of (sql, params), if any
beforeQueryCache(sql, params, dataSource, cache, now) ==
  LET live == {e \in cache : SameKey(e, sql, params) /\ ~Expired(e, now)}
  IN IF live = {} THEN [hit |-> FALSE, results |-> Undefined]
     ELSE [hit |-> TRUE, results |-> (CHOOSE e \in live : TRUE).results]

\* store: the entry of (sql, params) is created or refreshed
afterQueryCache(sql, params, result, dataSource, cache, now) ==
  {e \in cache : ~SameKey(e, sql, params)}
    \cup {[sql |-> sql, params |-> params, results |-> result,
           timestamp |-> now, ttl |-> CacheTTL]}

(***************************************************************************)
(* The internal engine behind dataSource.rpc.  db is the set of ids of the *)
(* rows of table t; table p holds one row of another owner.                *)
(***************************************************************************)
Row(id) == <<<<"id", JNumber(id)>>>>

RECURSIVE SetToSeq(_)
SetToSeq(S) ==
  IF S = {} THEN <<>>
  ELSE LET m == CHOOSE x \in S : \A y \in S : x <= y
       IN <<m>> \o SetToSeq(S \ {m})

\* The rows a SELECT reads.
RowsRead(sql, db) ==
  IF TableOf(sql) = "t"
    THEN LET ids == SetToSeq(db) IN [i \in 1..Len(ids) |-> Row(ids[i])]
  ELSE IF Len(sql) > 2 THEN <<>>
  ELSE <<Row(2)>>

\* rpc.executeQuery({ sql, params, isRaw })
rpcExecuteQuery(sql, params, isRaw, db) ==
  IF TableOf(sql) \notin EngineTables
    THEN [ret |-> Thrown("no such table"), db |-> db]
  ELSE IF sql[1] = "REPLACE"
    THEN [ret |-> Returned(IF isRaw THEN RawResult(<<>>, <<>>, 0, 1)
                           ELSE ObjectResult(<<>>)),
          db |-> db \cup {1}]
  ELSE LET rows == RowsRead(sql, db)
       IN [ret |-> Returned(
                     IF isRaw
                       THEN RawResult(<<"id">>,
                                      [r \in 1..Len(rows) |-> <<rows[r][1][2]>>],
                                      Len(rows), 0)
                       ELSE ObjectResult(rows)),
           db |-> db]

(***************************************************************************)
(* Data sources and configurations.                                        *)
(***************************************************************************)
InternalSource == [tag |-> "ds", source |-> "internal", external |-> Undefined]
ExternalSource(dialect, provider) ==
  [tag |-> "ds", source |-> "external",
   external |-> [tag |-> "external", v |-> <<>>,
                 dialect |-> dialect, provider |-> provider]]

\* x.external, undefined on a value that has no such property
External(x) == IF x.tag = "ds" THEN x.external ELSE Undefined

\* dataSource.external?.dialect
Dialect(dataSource) ==
  IF External(dataSource).tag = "external"
    THEN External(dataSource).dialect ELSE "undefined"

\* config?.outerbaseApiKey
ApiKey(x) == IF x.tag = "config" THEN x.outerbaseApiKey ELSE "undefined"

\* config?.features?.[key]
Feature(config, key) ==
  IF config.tag = "config" THEN config.features[key] ELSE "undefined"

FeatureNames == {"allowlist", "rls", "rest", "export", "import", "websocket"}

Configuration(allowlist, rls, apiKey) ==
  [tag |-> "config", role |-> "client", outerbaseApiKey |-> apiKey,
   features |-> [k \in FeatureNames |->
                   IF k = "allowlist" THEN allowlist
                   ELSE IF k = "rls" THEN rls ELSE "undefined"]]

(***************************************************************************)
(* Backend Adapter Dispatcher (executeSDKQuery, executeExternalQuery).     *)
(***************************************************************************)
\* What the external database answers.
ExternalData == ObjectResult(<<Row(1)>>)

\* Variant: a source that matches nothing gets the last adapter.
Adapter_Fallback(external) ==
  IF external.dialect = "postgres" THEN "postgres"
  ELSE IF external.dialect = "mysql" THEN "mysql"
  ELSE IF external.provider = "cloudflare-d1" THEN "cloudflare-d1"
  ELSE IF external.provider = "starbase" THEN "starbase"
  ELSE "turso"

\* The connection executeSDKQuery opens, by dialect and then provider.
Adapter(external) ==
  IF external.dialect = "postgres" THEN "postgres"
  ELSE IF external.dialect = "mysql" THEN "mysql"
  ELSE IF external.provider = "cloudflare-d1" THEN "cloudflare-d1"
  ELSE IF external.provider = "starbase" THEN "starbase"
  ELSE IF external.provider = "turso" THEN "turso"
  ELSE "unsupported"

NotSent == [via |-> "none", sql |-> <<>>, params |-> Undefined]

\* The outcome and the statement issued on the connection, if any.
executeSDKQuery(opts) ==
  LET external == External(opts.dataSource)
  IN IF Falsy(external)
       THEN [ret |-> Returned(ObjectResult(<<>>)), sent |-> NotSent]
     ELSE IF Adapter(external) = "unsupported"
       THEN [ret |-> Thrown("Unsupported external database type"), sent |-> NotSent]
     ELSE [ret |-> Returned(ExternalData),
           sent |-> [via |-> Adapter(external), sql |-> opts.sql,
                     params |-> opts.params]]

\* `param${index}` and `:param${paramIndex++}`
ParamNames == [n \in Indices |-> "param" \o ToString(n)]
Placeholders == [n \in Indices |-> ":param" \o ToString(n)]
ParamName(n) == ParamNames[n]
Placeholder(n) == Placeholders[n]

\* How many "?" tokens stand before position i.
Before(sql, i) == Cardinality({j \in 1..(i - 1) : sql[j] = "?"})

\* Variant: the placeholders are numbered from one.
ReplacePlaceholders_OneBased(sql) ==
  [i \in 1..Len(sql) |->
     IF sql[i] = "?" THEN Placeholder(Before(sql, i) + 1) ELSE sql[i]]

\* sql.replace(/\?/g, () => `:param${paramIndex++}`)
ReplacePlaceholders(sql) ==
  [i \in 1..Len(sql) |-> IF sql[i] = "?" THEN Placeholder(Before(sql, i)) ELSE sql[i]]

\* params.reduce((acc, value, index) => ({ ...acc, [`param${index}`]: value }), {})
ConvertParams(items) ==
  JObject([i \in 1..Len(items) |-> <<ParamName(i - 1), items[i]>>])

\* sql.replaceAll("\n", " ")
CollapseNewlines(sql) ==
  [i \in 1..Len(sql) |-> IF sql[i] = "\n" THEN " " ELSE sql[i]]

executeExternalQuery(sql, params, dataSource, config) ==
  IF Falsy(External(dataSource))
    THEN [ret |-> Thrown("External connection not found."), sent |-> NotSent]
  ELSE IF ApiKey(config) = "undefined"
    THEN executeSDKQuery([sql |-> sql, params |-> params,
                          dataSource |-> dataSource, config |-> config])
  ELSE LET convertedParams == IF IsArray(params) THEN ConvertParams(params.v)
                              ELSE params
           namedSql == IF IsArray(params) THEN ReplacePlaceholders(sql) ELSE sql
       IN [ret |-> Returned(ExternalData),
           sent |-> [via |-> "outerbase", sql |-> CollapseNewlines(namedSql),
                     params |-> convertedParams]]

(***************************************************************************)
(* Query Pipeline Orchestrator (executeQuery, executeTransaction).         *)
(* executeQuery runs one call to its end from the cache and engine state   *)
(* it is given and yields the call's outcome, the new cache and engine     *)
(* state, and the trace of the stages it went through.  Its body is cut    *)
(* into the operators below, one per stage, each handing what it computed  *)
(* to the next.                                                            *)
(***************************************************************************)
Ev(ev, sql, params) == [ev |-> ev, sql |-> sql, params |-> params]

\* The message of the Error the allowlist stage throws.
Rejection == "Query not allowed"

\* The arguments of a call, with the state it runs from.
Call(sql, params, isRaw, dataSource, config, cache, db, now) ==
  [sql |-> sql, params |-> params, isRaw |-> isRaw, dataSource |-> dataSource,
   config |-> config, cache |-> cache, db |-> db, now |-> now]

Finish(ret, trace, cache, db) ==
  [ret |-> ret, trace |-> trace, cache |-> cache, db |-> db]

\* config?.features?.allowlist ?? false and config?.features?.rls ?? false
AllowlistFlag(config) == Nullish(Feature(config, "allowlist"), FALSE)
\* Variant: row-level security defaults to on.
RlsFlag_DefaultOn(config) == Nullish(Feature(config, "rls"), TRUE)
RlsFlag(config) == Nullish(Feature(config, "rls"), FALSE)

\* Variant: the cache is used in raw mode too.
UseCache_Always(isRaw) == TRUE
\* The condition under which the cache is looked up and stored into.
UseCache(isRaw) == ~isRaw

\* Variant: the entry is stored without the params of its key.
StoreKey_NoParams(sql, updatedSQL, updatedParams) ==
  [sql |-> sql, params |-> Undefined]
\* The SQL and params that afterQueryCache is given as the key of the entry.
StoreKey(sql, updatedSQL, updatedParams) == [sql |-> sql, params |-> updatedParams]

\* The call of line 571, which passes (sql, params, isRaw, dataSource,
\* config) to the four parameters (sql, params, dataSource, config).
DispatchExternal(updatedSQL, updatedParams, isRaw, dataSource, config) ==
  executeExternalQuery(updatedSQL, updatedParams, JBool(isRaw), dataSource)

\* The backend dispatch: the internal engine, or the external connection.
Dispatch(updatedSQL, updatedParams, isRaw, dataSource, config, db) ==
  IF dataSource.source = "internal"
    THEN rpcExecuteQuery(updatedSQL, updatedParams, isRaw, db)
    ELSE [ret |-> DispatchExternal(updatedSQL, updatedParams, isRaw,
                                   dataSource, config).ret,
          db |-> db]

\* After the dispatch: the catch block on a failure, else the cache store
\* and the post-query hook.
Dispatched(c, rlsSQL, hooked, trace, answer) ==
  IF answer.ret.status = "error"
    THEN Finish(Thrown(answer.ret.message), trace, c.cache, answer.db)
  ELSE IF UseCache(c.isRaw)
    THEN Finish(Returned(afterQuery(hooked.sql, answer.ret.value, c.isRaw,
                                    c.dataSource, c.config)),
                Append(trace, Ev("store", StoreKey(rlsSQL, hooked.sql, hooked.params).sql,
                                 StoreKey(rlsSQL, hooked.sql, hooked.params).params)),
                afterQueryCache(StoreKey(rlsSQL, hooked.sql, hooked.params).sql,
                                StoreKey(rlsSQL, hooked.sql, hooked.params).params,
                                answer.ret.value, c.dataSource, c.cache, c.now),
                answer.db)
  ELSE Finish(Returned(afterQuery(hooked.sql, answer.ret.value, c.isRaw,
                                  c.dataSource, c.config)),
              trace, c.cache, answer.db)

\* Variant: a hit is dispatched like a miss.
Looked_Miss(c, rlsSQL, hooked, trace, looked) ==
  Dispatched(c, rlsSQL, hooked,
             Append(trace, Ev("dispatch", hooked.sql, hooked.params)),
             Dispatch(hooked.sql, hooked.params, c.isRaw, c.dataSource,
                      c.config, c.db))

\* After the cache lookup: a hit is returned, a miss is dispatched.
Looked(c, rlsSQL, hooked, trace, looked) ==
  IF looked.hit
    THEN Finish(Returned(looked.results), trace, c.cache, c.db)
    ELSE Dispatched(c, rlsSQL, hooked,
                    Append(trace, Ev("dispatch", hooked.sql, hooked.params)),
                    Dispatch(hooked.sql, hooked.params, c.isRaw, c.dataSource,
                             c.config, c.db))

\* After the pre-query hook: the cache lookup.
Hooked(c, rlsSQL, trace, hooked) ==
  Looked(c, rlsSQL, hooked,
         IF UseCache(c.isRaw)
           THEN Append(trace, Ev("lookup", hooked.sql, hooked.params))
           ELSE trace,
         IF UseCache(c.isRaw)
           THEN beforeQueryCache(hooked.sql, hooked.params, c.dataSource,
                                 c.cache, c.now)
           ELSE [hit |-> FALSE, results |-> Undefined])

\* Variant: the statement is rewritten first and the allowlist checks the
\* rewritten statement.
SecurityStage_RlsFirst(sql, params, dataSource, config) ==
  IF ~isQueryAllowed(applyRLS(sql, RlsFlag(config), Dialect(dataSource),
                              dataSource, config),
                     AllowlistFlag(config), dataSource, config)
    THEN [allowed |-> FALSE, sql |-> sql,
          trace |-> <<Ev("rls", sql, params),
                      Ev("allowlist", applyRLS(sql, RlsFlag(config),
                                               Dialect(dataSource), dataSource,
                                               config), params)>>]
    ELSE [allowed |-> TRUE,
          sql |-> applyRLS(sql, RlsFlag(config), Dialect(dataSource),
                           dataSource, config),
          trace |-> <<Ev("rls", sql, params),
                      Ev("allowlist", applyRLS(sql, RlsFlag(config),
                                               Dialect(dataSource), dataSource,
                                               config), params)>>]

\* The security stage: the allowlist check of the statement as received,
\* then the RLS rewrite of the statement the allowlist let through.
SecurityStage(sql, params, dataSource, config) ==
  IF ~isQueryAllowed(sql, AllowlistFlag(config), dataSource, config)
    THEN [allowed |-> FALSE, sql |-> sql,
          trace |-> <<Ev("allowlist", sql, params)>>]
    ELSE [allowed |-> TRUE,
          sql |-> applyRLS(sql, RlsFlag(config), Dialect(dataSource),
                           dataSource, config),
          trace |-> <<Ev("allowlist", sql, params), Ev("rls", sql, params)>>]

\* Variant: the pipeline goes on after a rejection.
Secured_Through(c, sec) ==
  Hooked(c, sec.sql, sec.trace,
         beforeQuery(sec.sql, c.params, c.dataSource, c.config))

\* After the security stage: the catch block on a rejection, else the hook.
Secured(c, sec) ==
  IF ~sec.allowed
    THEN Finish(Thrown(Rejection), sec.trace, c.cache, c.db)
    ELSE Hooked(c, sec.sql, sec.trace,
                beforeQuery(sec.sql, c.params, c.dataSource, c.config))

executeQuery(sql, params, isRaw, dataSource, config, cache, db, now) ==
  IF Falsy(dataSource)
    THEN Finish(Returned(ObjectResult(<<>>)), <<>>, cache, db)
    ELSE Secured(Call(sql, params, isRaw, dataSource, config, cache, db, now),
                 SecurityStage(sql, params, dataSource, config))

\* One element of a batch, as executeTransaction ran it.
Pass(query, run) ==
  [sql |-> query.sql, params |-> query.params, ret |-> run.ret, trace |-> run.trace]

\* What executeTransaction yields: its outcome, the passes it ran, the state.
Batch(ret, passes, cache, db) ==
  [ret |-> ret, passes |-> passes, cache |-> cache, db |-> db]

RECURSIVE TransactionLoop_Continue(_, _, _, _, _, _, _, _, _)
\* Variant: the loop goes on to the next element after a failure.
TransactionLoop_Continue(queries, i, isRaw, dataSource, config, now, results, passes, run) ==
  IF i = Len(queries)
    THEN Batch(IF run.ret.status = "error" THEN run.ret
               ELSE Returned(ResultList(Append(results, run.ret.value))),
               Append(passes, Pass(queries[i], run)), run.cache, run.db)
  ELSE TransactionLoop_Continue(queries, i + 1, isRaw, dataSource, config, now,
                                Append(results, run.ret.value),
                                Append(passes, Pass(queries[i], run)),
                                executeQuery(queries[i + 1].sql,
                                             queries[i + 1].params, isRaw,
                                             dataSource, config, run.cache,
                                             run.db, now))

RECURSIVE TransactionLoop(_, _, _, _, _, _, _, _, _)
\* The for loop of executeTransaction from element i on; run is element i's
\* executeQuery call.
TransactionLoop(queries, i, isRaw, dataSource, config, now, results, passes, run) ==
  IF run.ret.status = "error"
    THEN Batch(run.ret, Append(passes, Pass(queries[i], run)), run.cache, run.db)
  ELSE IF i = Len(queries)
    THEN Batch(Returned(ResultList(Append(results, run.ret.value))),
               Append(passes, Pass(queries[i], run)), run.cache, run.db)
  ELSE TransactionLoop(queries, i + 1, isRaw, dataSource, config, now,
                       Append(results, run.ret.value),
                       Append(passes, Pass(queries[i], run)),
                       executeQuery(queries[i + 1].sql, queries[i + 1].params,
                                    isRaw, dataSource, config,
                                    run.cache, run.db, now))

executeTransaction(queries, isRaw, dataSource, config, cache, db, now) ==
  IF Falsy(dataSource)
    THEN Batch(Returned(ObjectResult(<<>>)), <<>>, cache, db)
  ELSE IF Len(queries) = 0
    THEN Batch(Returned(ResultList(<<>>)), <<>>, cache, db)
  ELSE TransactionLoop(queries, 1, isRaw, dataSource, config, now, <<>>, <<>>,
                       executeQuery(queries[1].sql, queries[1].params, isRaw,
                                    dataSource, config, cache, db, now))

(***************************************************************************)
(* The HTTP entry point (StarbaseDB.queryRoute, expireCache, handle).      *)
(***************************************************************************)
\* createResponse(result, error, status)
Response(result, error, status) ==
  [status |-> status, result |-> result, error |-> error]

RECURSIVE TrimStart(_)
TrimStart(s) ==
  IF s # <<>> /\ Head(s) = " " THEN TrimStart(Tail(s)) ELSE s

RECURSIVE TrimEnd(_)
TrimEnd(s) ==
  IF s # <<>> /\ s[Len(s)] = " " THEN TrimEnd(SubSeq(s, 1, Len(s) - 1)) ELSE s

\* s.trim()
Trim(s) == TrimEnd(TrimStart(s))

\* typeof sql !== 'string' || !sql.trim()
BadSql(sql) == TypeOf(sql) # "string" \/ Trim(sql.v) = <<>>

\* params !== undefined && !Array.isArray(params) && typeof params !== 'object'
BadParams(params) ==
  params # Undefined /\ ~IsArray(params) /\ TypeOf(params) # "object"

\* The Error the map callback throws on an element, "" when it returns.
ElementError(queryObj) ==
  IF BadSql(GetKey(queryObj.v, "sql"))
    THEN "Invalid or empty \"sql\" field in transaction."
  ELSE IF BadParams(GetKey(queryObj.v, "params"))
    THEN "Invalid \"params\" field in transaction. Must be an array or object."
  ELSE ""

\* The elements on which transaction.map throws; map stops at the first.
Throwing(transaction) ==
  {i \in 1..Len(transaction.v) : ElementError(transaction.v[i]) # ""}

First(S) == CHOOSE i \in S : \A j \in S : i <= j

\* The argument queryRoute hands to executeTransaction and executeQuery: one
\* object that holds the fields.
Options(pairs) == JObject(pairs)

\* The response of a completed call, or that of the catch block.
Reply(ret) ==
  IF ret.status = "error"
    THEN Response(Undefined,
                  IF ret.message = "" THEN "An unexpected error occurred."
                  ELSE ret.message, 500)
    ELSE Response(ret.value, "", 200)

\* The passes of a call of executeTransaction, and of one of executeQuery
\* (none when it returned before its first stage).
TransactionPasses(run) == run.passes
QueryPasses(sql, params, run) ==
  IF run.trace = <<>> THEN <<>>
  ELSE <<[sql |-> sql, params |-> params, ret |-> run.ret, trace |-> run.trace]>>

\* The response to a call that ran, with the passes it made and the state
\* it left.
Answered(run, passes) ==
  [response |-> Reply(run.ret), passes |-> passes, cache |-> run.cache,
   db |-> run.db]

TransactionAnswered(run) == Answered(run, TransactionPasses(run))
QueryAnswered(sql, params, run) == Answered(run, QueryPasses(sql, params, run))

\* The response to a request that is refused before any call.
Refused(response, cache, db) ==
  [response |-> response, passes |-> <<>>, cache |-> cache, db |-> db]

\* The transaction branch of queryRoute: map validates every element, then
\* executeTransaction is called.
TransactionRoute(transaction, isRaw, self, cache, db, now) ==
  IF Throwing(transaction) # {}
    THEN Refused(Reply(Thrown(
                   ElementError(transaction.v[First(Throwing(transaction))]))),
                 cache, db)
    ELSE TransactionAnswered(
           executeTransaction(
             Options(<<<<"queries", JArray(transaction.v)>>,
                       <<"isRaw", JBool(isRaw)>>,
                       <<"dataSource", self.dataSource>>,
                       <<"config", self.config>>>>),
             Undefined, Undefined, Undefined, cache, db, now))

\* The body of queryRoute once the request body is read.
QueryBody(sql, params, transaction, isRaw, self, cache, db, now) ==
  IF IsArray(transaction) /\ Len(transaction.v) > 0
    THEN TransactionRoute(transaction, isRaw, self, cache, db, now)
  ELSE IF BadSql(sql)
    THEN Refused(Response(Undefined, "Invalid or empty \"sql\" field.", 400),
                 cache, db)
  ELSE IF BadParams(params)
    THEN Refused(Response(Undefined,
                          "Invalid \"params\" field. Must be an array or object.",
                          400),
                 cache, db)
  ELSE QueryAnswered(
         sql, params,
         executeQuery(
           Options(<<<<"sql", sql>>, <<"params", params>>,
                     <<"isRaw", JBool(isRaw)>>,
                     <<"dataSource", self.dataSource>>,
                     <<"config", self.config>>>>),
           Undefined, Undefined, Undefined, Undefined, cache, db, now))

\* queryRoute(request, isRaw) of the instance self: the response, with the
\* cache and engine state the call leaves.
queryRoute(request, isRaw, self, cache, db, now) ==
  IF request.contentType # "application/json"
    THEN Refused(Response(Undefined, "Content-Type must be application/json.", 400),
                 cache, db)
    ELSE QueryBody(GetKey(request.body.v, "sql"), GetKey(request.body.v, "params"),
                   GetKey(request.body.v, "transaction"), isRaw, self,
                   cache, db, now)

\* Variant: no DELETE is sent.
expireCache_NotSent(sweeps, now) == sweeps

\* expireCache(): the DELETE is handed to the engine with the cut-off
\* Date.now() and is not awaited.
expireCache(sweeps, now) == sweeps \cup {now}

\* DELETE FROM tmp_cache WHERE timestamp + (ttl * 1000) < cutoff
Swept(cache, cutoff) ==
  {e \in cache : ~(e.timestamp + (e.ttl * 1000) < cutoff)}

\* Variant: the check of the external descriptor is left out.
constructor_Unchecked(options) ==
  Returned([dataSource |-> options.dataSource, config |-> options.config])

\* new StarbaseDB(options): the instance, or the Error the constructor throws.
constructor(options) ==
  IF options.dataSource.source = "external" /\ Falsy(External(options.dataSource))
    THEN Thrown("No external data sources available.")
    ELSE Returned([dataSource |-> options.dataSource, config |-> options.config])

\* Variant: an explicit false falls back to the default too.
getFeature_Or(config, key, defaultValue) ==
  IF Feature(config, key) = "true" THEN TRUE ELSE defaultValue

\* this.config.features?.[key] ?? !!defaultValue
getFeature(config, key, defaultValue) ==
  Nullish(Feature(config, key), defaultValue)

\* The routes one handle() call of the instance self adds to app.
Registered(self) ==
  {"query/raw", "query"}
    \cup (IF getFeature(self.config, "rest", TRUE) THEN {"rest"} ELSE {})
    \cup (IF getFeature(self.config, "export", TRUE) THEN {"export"} ELSE {})
    \cup (IF getFeature(self.config, "import", TRUE) THEN {"import"} ELSE {})

\* app after handle() of the instance self has added its routes.  app is
\* the sequence of the instances whose routes it holds, in the order of
\* their first handle() call; the routes an instance adds again change
\* nothing, its first ones come before them.
Register(app, self) ==
  IF \E i \in 1..Len(app) : app[i] = self THEN app ELSE Append(app, self)

\* The route of app that answers the request.
Route(request) ==
  IF request.method = "OPTIONS" THEN "options"
  ELSE IF request.method = "POST" /\ request.path = "/query/raw" THEN "query/raw"
  ELSE IF request.method = "POST" /\ request.path = "/query" THEN "query"
  ELSE IF request.path = "/rest/t" THEN "rest"
  ELSE IF request.method = "GET" /\ request.path = "/export/dump" THEN "export"
  ELSE IF request.method = "POST" /\ request.path = "/import/dump" THEN "import"
  ELSE "notFound"

\* The instances of app that added a handler for the route.
Owners(app, route) == {i \in 1..Len(app) : route \in Registered(app[i])}

\* What answers the request: the CORS preflight handler, the not-found
\* handler, or the handler of the route that was added first.
Layer(request, app) ==
  IF Route(request) = "options" THEN "options"
  ELSE IF Owners(app, Route(request)) = {} THEN "notFound"
  ELSE Route(request)

NoInstance == [dataSource |-> Undefined, config |-> Undefined]

\* The instance whose handler answers the request.
Serving(request, app) ==
  IF Layer(request, app) \in {"options", "notFound"} THEN NoInstance
  ELSE app[First(Owners(app, Route(request)))]

\* this.liteREST.handleRequest(request), dumpDatabaseRoute(...) and
\* importDumpRoute(...) of the instance self: the layer that answers.
Delegated(layer, self) == Response(JString(<<layer>>), "", 200)

\* The isInternalSource middleware of the instance self, then the handler.
Guarded(layer, self, cache, db) ==
  IF self.dataSource.source # "internal"
    THEN Refused(Response(Undefined,
                          "Function is only available for internal data source.",
                          400),
                 cache, db)
    ELSE Refused(Delegated(layer, self), cache, db)

\* The handler of the instance self on the route layer answers.
Served(request, layer, self, cache, db, now) ==
  IF layer \in {"query/raw", "query"}
    THEN queryRoute(request, layer = "query/raw", self, cache, db, now)
  ELSE IF layer = "rest"
    THEN Refused(Delegated(layer, self), cache, db)
  ELSE Guarded(layer, self, cache, db)

\* app.fetch(request) on the routes app holds.
Fetch(request, app, cache, db, now) ==
  IF Layer(request, app) = "options"
    THEN Refused(Response(Undefined, "", 204), cache, db)
  ELSE IF Layer(request, app) = "notFound"
    THEN Refused(Response(Undefined, "Not found", 404), cache, db)
  ELSE Served(request, Layer(request, app), Serving(request, app), cache, db, now)

(***************************************************************************)
(* The state.                                                              *)
(***************************************************************************)
VARIABLES
  inst,    \* the gateway instance: its dataSource and config
  now,     \* Date.now()
  cache,   \* the entries of the cache table tmp_cache
  db,      \* the rows of table t of the internal engine
  sweeps,  \* the cut-offs of the expiry sweeps in flight to the engine
  app,     \* the module-level app: the instances whose routes it holds
  last,    \* the latest operation: its arguments, outcome and trace
  calls    \* the calls of executeQuery in flight, each with its position

vars == <<inst, now, cache, db, sweeps, app, last, calls>>

Tri == {"undefined", "true", "false"}

DataSources == {InternalSource, ExternalSource("postgres", "undefined")}
Configurations == {Configuration(a, r, "undefined") : a \in Tri, r \in Tri}

\* The statements callers send.
QueryInputs ==
  {[sql |-> SelT, params |-> Undefined],
   [sql |-> SelP, params |-> Undefined],
   [sql |-> PutT, params |-> JArray(<<JNumber(1)>>)],
   [sql |-> SelX, params |-> Undefined]}

RECURSIVE SeqsUpTo(_, _)
\* The non-empty sequences over S of length at most n.
SeqsUpTo(S, n) ==
  IF n = 0 THEN {}
  ELSE LET shorter == SeqsUpTo(S, n - 1)
       IN {<<x>> : x \in S} \cup shorter
            \cup {Append(q, x) : q \in shorter, x \in S}

\* The statements of the batches callers send.
BatchInputs ==
  {[sql |-> PutT, params |-> JArray(<<JNumber(1)>>)],
   [sql |-> SelX, params |-> Undefined]}

Batches == SeqsUpTo(BatchInputs, MaxBatch)

\* The elements of the transaction field of a request body.
Element(sql, params) == JObject(<<<<"sql", sql>>, <<"params", params>>>>)

SqlValues == {JString(SelT), JString(<<" ">>), JNumber(1), Undefined}
ParamsValues ==
  {Undefined, JArray(<<JNumber(1)>>), JObject(<<>>), JNull, JString(<<"x">>)}

Elements ==
  {Element(JString(PutT), JArray(<<JNumber(1)>>)), Element(JString(SelT), JNull),
   Element(JString(<<" ">>), Undefined), Element(JString(SelT), JString(<<"x">>))}

Body(sql, params, transaction) ==
  JObject(<<<<"sql", sql>>, <<"params", params>>, <<"transaction", transaction>>>>)

Bodies ==
  {Body(s, p, Undefined) : s \in SqlValues, p \in ParamsValues}
    \cup {Body(JString(SelT), Undefined, JArray(<<>>))}
    \cup {Body(Undefined, Undefined, JArray(b)) : b \in SeqsUpTo(Elements, MaxBatch)}

Request(path, contentType, body) ==
  [method |-> "POST", path |-> path, contentType |-> contentType, body |-> body]

SampleBodies ==
  {Body(JString(SelT), Undefined, Undefined),
   Body(Undefined, Undefined,
        JArray(<<Element(JString(PutT), JArray(<<JNumber(1)>>)),
                 Element(JString(SelX), Undefined)>>))}

Requests ==
  {Request("/query", "application/json", b) : b \in Bodies}
    \cup {Request("/query/raw", "application/json", b) : b \in SampleBodies}
    \cup {Request("/query", "text/plain", b) : b \in SampleBodies}

\* A few of each, for the specifications that explore another kind in full.
SampleQueries == {[sql |-> SelT, params |-> Undefined]}
SampleBatches ==
  {<<[sql |-> PutT, params |-> JArray(<<JNumber(1)>>)],
     [sql |-> SelX, params |-> Undefined]>>}
SampleRequests ==
  {Request("/query", "application/json", Body(JString(SelT), Undefined, Undefined))}

NoOperation == [op |-> "none"]

Init ==
  /\ inst \in [dataSource : DataSources, config : Configurations]
  /\ now = 0
  /\ cache = {}
  /\ db = {}
  /\ sweeps = {}
  /\ app = <<>>
  /\ calls = <<>>
  /\ last = NoOperation

(***************************************************************************)
(* The operations.                                                         *)
(***************************************************************************)
\* The timestamp of the entry of (sql, params), -1 when there is none.
Stamp(entries, sql, params) ==
  IF \E e \in entries : SameKey(e, sql, params)
    THEN (CHOOSE e \in entries : SameKey(e, sql, params)).timestamp
    ELSE -1

\* A collaborator that holds the instance's (dataSource, config) calls
\* executeQuery; stamp records the timestamp of the call's cache entry.

QueryRan(q, isRaw, run) ==
  /\ cache' = run.cache
  /\ db' = run.db
  /\ last' = [op |-> "executeQuery", sql |-> q.sql, params |-> q.params,
              isRaw |-> isRaw, ret |-> run.ret, trace |-> run.trace,
              stamp |-> Stamp(run.cache, q.sql, q.params)]
  /\ UNCHANGED <<inst, now, sweeps, app, calls>>

CallExecuteQuery(q, isRaw) ==
  QueryRan(q, isRaw,
           executeQuery(q.sql, q.params, isRaw, inst.dataSource, inst.config,
                        cache, db, now))

\* A collaborator calls executeTransaction.
TransactionRan(queries, isRaw, run) ==
  /\ cache' = run.cache
  /\ db' = run.db
  /\ last' = [op |-> "executeTransaction", queries |-> queries,
              isRaw |-> isRaw, ret |-> run.ret, passes |-> run.passes]
  /\ UNCHANGED <<inst, now, sweeps, app, calls>>

CallExecuteTransaction(queries, isRaw) ==
  TransactionRan(queries, isRaw,
                 executeTransaction(queries, isRaw, inst.dataSource, inst.config,
                                    cache, db, now))

\* The clock advances by one second, in the milliseconds Date.now() counts.
Tick ==
  /\ now < MaxTicks * 1000
  /\ now' = now + 1000
  /\ UNCHANGED <<inst, cache, db, sweeps, app, last, calls>>

\* A request arrives: handle() of the instance adds its routes to app,
\* starts the expiry sweep and answers with app.fetch.
Handled(request, routes, out) ==
  /\ Cardinality(expireCache(sweeps, now)) <= MaxSweeps
  /\ Len(routes) <= MaxInstances
  /\ sweeps' = expireCache(sweeps, now)
  /\ app' = routes
  /\ cache' = out.cache
  /\ db' = out.db
  /\ last' = [op |-> "handle", request |-> request, response |-> out.response,
              passes |-> out.passes, layer |-> Layer(request, routes),
              self |-> Serving(request, routes), this |-> inst]
  /\ UNCHANGED <<inst, now, calls>>

Handle(request) ==
  Handled(request, Register(app, inst),
          Fetch(request, Register(app, inst), cache, db, now))

\* The engine runs the DELETE of a sweep.
SweepDeliver(cutoff) ==
  /\ cutoff \in sweeps
  /\ sweeps' = sweeps \ {cutoff}
  /\ cache' = Swept(cache, cutoff)
  /\ UNCHANGED <<inst, now, db, app, last, calls>>

\* The ways the engine call of expireCache (line 333) fails: it raises
\* before it returns a promise, or the promise it returns rejects.
Failures == {"throws", "rejects"}

\* try { call } catch (err) { ... }: whether the catch block runs when the
\* call fails.  What the call raises reaches the catch block; the
\* rejection of the promise it returns reaches it when the call is awaited.
Catches(failure, awaited) == failure = "throws" \/ awaited

\* expireCache() when the engine call fails: whether console.error runs,
\* and how the promise handed to ctx.waitUntil settles.  The call of line
\* 333 has no await.
expireCacheFailing(failure) ==
  [logged |-> Catches(failure, FALSE), promise |-> "fulfilled"]

\* A request arrives and the engine call of expireCache raises: handle()
\* adds its routes, no sweep is sent, and app.fetch answers.
Thrown333(request, routes, out) ==
  /\ Len(routes) <= MaxInstances
  /\ app' = routes
  /\ cache' = out.cache
  /\ db' = out.db
  /\ last' = [op |-> "handle", request |-> request, response |-> out.response,
              passes |-> out.passes, layer |-> Layer(request, routes),
              self |-> Serving(request, routes), this |-> inst,
              failure |-> "throws",
              sweep |-> expireCacheFailing("throws"),
              unfailing |-> Fetch(request, routes, cache, db, now)]
  /\ UNCHANGED <<inst, now, sweeps, calls>>

HandleThrowing(request) ==
  Thrown333(request, Register(app, inst),
            Fetch(request, Register(app, inst), cache, db, now))

\* The promise of a sweep in flight rejects: the engine does not run the
\* DELETE, and the rejection goes to whoever took the promise.
SweepReject(cutoff) ==
  /\ cutoff \in sweeps
  /\ sweeps' = sweeps \ {cutoff}
  /\ last' = [op |-> "rejection", cutoff |-> cutoff, failure |-> "rejects",
              sweep |-> expireCacheFailing("rejects")]
  /\ UNCHANGED <<inst, now, cache, db, app, calls>>

(***************************************************************************)
(* executeQuery, one await at a time.  A call gives way to the other calls *)
(* at each await: the ones of the security stage and of the hook touch no  *)
(* shared state, so a call is followed from the cache lookup (549-560) to  *)
(* the dispatch (562-577) to the cache store and its return (579-584).     *)
(***************************************************************************)
Pending == [status |-> "pending", value |-> Undefined, message |-> ""]

\* A call of executeQuery that has not reached its cache lookup.
Entered(q, isRaw) ==
  [sql |-> q.sql, params |-> q.params, isRaw |-> isRaw, at |-> "lookup",
   rlsSQL |-> q.sql, hooked |-> [sql |-> q.sql, params |-> q.params],
   response |-> Undefined, ret |-> Pending, wrote |-> 0]

\* The call returns, or throws from its catch block.
Ended(c, ret) == [c EXCEPT !.at = "done", !.ret = ret]

\* Lines 549-560: a hit is returned, a miss goes on to the dispatch.
AfterLookup(c, rlsSQL, hooked, looked) ==
  IF looked.hit
    THEN Ended(c, Returned(looked.results))
    ELSE [c EXCEPT !.at = "dispatch", !.rlsSQL = rlsSQL, !.hooked = hooked]

\* Lines 515-547: the security stage and the hook, up to the lookup.
AfterSecurity(c, sec, dataSource, config, entries, t) ==
  IF Falsy(dataSource) THEN Ended(c, Returned(ObjectResult(<<>>)))
  ELSE IF ~sec.allowed THEN Ended(c, Thrown(Rejection))
  ELSE AfterLookup(c, sec.sql, beforeQuery(sec.sql, c.params, dataSource, config),
                   IF UseCache(c.isRaw)
                     THEN beforeQueryCache(
                            beforeQuery(sec.sql, c.params, dataSource, config).sql,
                            beforeQuery(sec.sql, c.params, dataSource, config).params,
                            dataSource, entries, t)
                     ELSE [hit |-> FALSE, results |-> Undefined])

\* Lines 562-577 and the catch block: the backend's answer is kept for the
\* store, its failure ends the call.
AfterDispatch(c, answer) ==
  IF answer.ret.status = "error"
    THEN Ended(c, Thrown(answer.ret.message))
    ELSE [c EXCEPT !.at = "store", !.response = answer.ret.value]

\* Variant: an entry that exists is left as it is.
Stores_IfAbsent(c, dataSource, entries, t) ==
  IF ~UseCache(c.isRaw) \/ \E e \in entries : SameKey(e, c.rlsSQL, c.hooked.params)
    THEN entries
    ELSE afterQueryCache(c.rlsSQL, c.hooked.params, c.response, dataSource,
                         entries, t)

\* Lines 579-582: the cache after the store of the call.
Stores(c, dataSource, entries, t) ==
  IF UseCache(c.isRaw)
    THEN afterQueryCache(StoreKey(c.rlsSQL, c.hooked.sql, c.hooked.params).sql,
                         StoreKey(c.rlsSQL, c.hooked.sql, c.hooked.params).params,
                         c.response, dataSource, entries, t)
    ELSE entries

\* How many calls have stored into the cache.
Writes == Cardinality({i \in 1..Len(calls) : calls[i].wrote > 0})

\* Line 584: the call returns what afterQuery makes of the answer; wrote is
\* the place of its store among the stores so far.
AfterStore(c, dataSource, config, writes) ==
  [Ended(c, Returned(afterQuery(c.hooked.sql, c.response, c.isRaw,
                                dataSource, config)))
     EXCEPT !.wrote = IF UseCache(c.isRaw) THEN writes + 1 ELSE 0]

\* A collaborator calls executeQuery while other calls are in flight.
Enter(q, isRaw) ==
  /\ Len(calls) < MaxCalls
  /\ calls' = Append(calls, Entered(q, isRaw))
  /\ UNCHANGED <<inst, now, cache, db, sweeps, app, last>>

\* The call i runs up to its next await.
StepLookup(i) ==
  /\ i \in 1..Len(calls)
  /\ calls[i].at = "lookup"
  /\ calls' = [calls EXCEPT ![i] =
                 AfterSecurity(calls[i],
                               SecurityStage(calls[i].sql, calls[i].params,
                                             inst.dataSource, inst.config),
                               inst.dataSource, inst.config, cache, now)]
  /\ UNCHANGED <<inst, now, cache, db, sweeps, app, last>>

Answer(i) ==
  Dispatch(calls[i].hooked.sql, calls[i].hooked.params, calls[i].isRaw,
           inst.dataSource, inst.config, db)

StepDispatch(i) ==
  /\ i \in 1..Len(calls)
  /\ calls[i].at = "dispatch"
  /\ calls' = [calls EXCEPT ![i] = AfterDispatch(calls[i], Answer(i))]
  /\ db' = Answer(i).db
  /\ UNCHANGED <<inst, now, cache, sweeps, app, last>>

StepStore(i) ==
  /\ i \in 1..Len(calls)
  /\ calls[i].at = "store"
  /\ cache' = Stores(calls[i], inst.dataSource, cache, now)
  /\ calls' = [calls EXCEPT ![i] =
                 AfterStore(calls[i], inst.dataSource, inst.config, Writes)]
  /\ UNCHANGED <<inst, now, db, sweeps, app, last>>

Advance(i) == StepLookup(i) \/ StepDispatch(i) \/ StepStore(i)

\* The statements and params handed to executeExternalQuery.
ProxySql == SeqsUpTo({"a", "?", "\n"}, MaxSql)
ProxyParams ==
  {Undefined, JObject(<<<<"x", JNumber(7)>>>>), JArray(<<>>)}
    \cup {JArray(a) : a \in SeqsUpTo({JNumber(7), JNumber(8)}, MaxParams)}
ProxyConfigurations ==
  {Configuration("undefined", "undefined", k) : k \in {"undefined", "key"}}

\* The record of one application of executeExternalQuery.
ExternalQueryRan(sql, params, dataSource, config, out) ==
  [op |-> "executeExternalQuery", sql |-> sql, params |-> params,
   dataSource |-> dataSource, config |-> config,
   ret |-> out.ret, sent |-> out.sent]

\* executeExternalQuery is applied to a statement.
CallExecuteExternalQuery ==
  /\ last.op = "arguments"
  /\ last.of = "executeExternalQuery"
  /\ last' = ExternalQueryRan(last.sql, last.params, last.dataSource, last.config,
                              executeExternalQuery(last.sql, last.params,
                                                   last.dataSource, last.config))
  /\ UNCHANGED <<inst, now, cache, db, sweeps, app, calls>>

\* The raw results handed to the transformer: the rows are as long as the
\* columns.
ColumnNames == {"a", "b", "1"}
CellValues == {JNumber(7), JNumber(8)}
ColumnLists == {<<>>} \cup SeqsUpTo(ColumnNames, MaxColumns)
RowsOver(columns) ==
  {<<>>} \cup SeqsUpTo([1..Len(columns) -> CellValues], MaxRows)
RawResults ==
  UNION {{RawResult(columns, rows, Len(rows), 0) : rows \in RowsOver(columns)} :
           columns \in ColumnLists}

\* afterQuery's two conversions are applied to a raw result: raw to object,
\* then object to raw.
Transformed(result, objects) ==
  [op |-> "transformRawResults", result |-> result, objects |-> objects,
   raw |-> transformRawResults(objects, "to")]

CallTransformRawResults ==
  /\ last.op = "arguments"
  /\ last.of = "transformRawResults"
  /\ last' = Transformed(last.result, transformRawResults(last.result, "from"))
  /\ UNCHANGED <<inst, now, cache, db, sweeps, app, calls>>

\* The row mappings handed to the object-to-raw conversion: the rows of one
\* result need not have the same keys, and the values under neighbouring
\* columns differ.
ObjectRows ==
  UNION {{ZipRow(columns,
                 [c \in 1..Len(columns) |->
                    IF c % 2 = odd THEN JNumber(7) ELSE JNumber(8)],
                 1, <<>>) : odd \in {0, 1}} :
           columns \in ColumnLists}
ObjectResults ==
  {ObjectResult(rows) : rows \in UNION {[1..n -> ObjectRows] : n \in 0..MaxRows}}

\* transformRawResults(result, 'to') is applied to row mappings.
CallToRaw ==
  /\ last.op = "arguments"
  /\ last.of = "to"
  /\ last' = [op |-> "to", result |-> last.result,
              raw |-> transformRawResults(last.result, "to")]
  /\ UNCHANGED <<inst, now, cache, db, sweeps, app, calls>>

\* The raw results a backend answers with: rows of one value under each
\* list of columns, reported with no written row, or one.
ReportedResults ==
  {RawResult(columns,
             [r \in 1..n |-> [c \in 1..Len(columns) |-> JNumber(7)]],
             n, written) :
     columns \in ColumnLists, n \in 0..MaxRows, written \in {0, 1}}

\* afterQuery is applied to the backend's answer to a raw-mode call.
CallAfterQuery ==
  /\ last.op = "arguments"
  /\ last.of = "afterQuery"
  /\ last' = [op |-> "afterQuery", result |-> last.result, isRaw |-> TRUE,
              objects |-> transformRawResults(last.result, "from"),
              ret |-> afterQuery(last.sql, last.result, TRUE,
                                 inst.dataSource, inst.config)]
  /\ UNCHANGED <<inst, now, cache, db, sweeps, app, calls>>

\* The data sources handed to executeSDKQuery.
Dialects == {"postgres", "mysql", "sqlite", "undefined"}
Providers == {"cloudflare-d1", "starbase", "turso", "other", "undefined"}
SdkSources ==
  {InternalSource} \cup {ExternalSource(d, p) : d \in Dialects, p \in Providers}

\* The options executeSDKQuery is handed, and the record of one application.
SdkOptions(q, dataSource) ==
  [sql |-> q.sql, params |-> q.params, dataSource |-> dataSource,
   config |-> Configuration("undefined", "undefined", "undefined")]
SDKQueryRan(opts, out) ==
  [op |-> "executeSDKQuery", opts |-> opts, ret |-> out.ret, sent |-> out.sent]

\* executeSDKQuery is applied to a statement.
CallExecuteSDKQuery ==
  /\ last.op = "arguments"
  /\ last.of = "executeSDKQuery"
  /\ last' = SDKQueryRan(last.opts, executeSDKQuery(last.opts))
  /\ UNCHANGED <<inst, now, cache, db, sweeps, app, calls>>

NextOver(queries, batches, requests) ==
  \/ \E q \in queries, isRaw \in BOOLEAN : CallExecuteQuery(q, isRaw)
  \/ \E b \in batches, isRaw \in BOOLEAN : CallExecuteTransaction(b, isRaw)
  \/ \E r \in requests : Handle(r)
  \/ \E cutoff \in sweeps : SweepDeliver(cutoff)
  \/ Tick

\* Every single statement, with a sample of the batches and requests.
Next == NextOver(QueryInputs, SampleBatches, SampleRequests)
Spec == Init /\ [][Next]_vars

\* Every batch, with a sample of the single statements and requests, on
\* the instances that leave each of allowlist and rls unset or turn it on.
BatchInit ==
  /\ Init
  /\ Feature(inst.config, "allowlist") # "false"
  /\ Feature(inst.config, "rls") # "false"
BatchNext == NextOver(SampleQueries, Batches, SampleRequests)
BatchSpec == BatchInit /\ [][BatchNext]_vars

\* Every request.
RouteNext ==
  \/ \E r \in Requests : Handle(r)
  \/ \E cutoff \in sweeps : SweepDeliver(cutoff)
  \/ Tick
RouteSpec == Init /\ [][RouteNext]_vars

\* The configurations with one toggle set, or none.
Toggled(config, key, value) ==
  [config EXCEPT !.features = [@ EXCEPT ![key] = value]]
ToggleConfigurations ==
  {Toggled(Configuration("undefined", "undefined", "undefined"), key, value) :
     key \in FeatureNames, value \in Tri}

\* The toggle as the code that reads it resolves it: executeQuery reads
\* allowlist and rls, getFeature with its default reads the others.
Resolved(config, key) ==
  IF key = "allowlist" THEN AllowlistFlag(config)
  ELSE IF key = "rls" THEN RlsFlag(config)
  ELSE getFeature(config, key, TRUE)

\* Every toggle of a configuration is resolved.
CallGetFeature ==
  /\ last.op = "arguments"
  /\ last.of = "getFeature"
  /\ last' = [op |-> "getFeature", config |-> last.config,
              resolved |-> [key \in FeatureNames |-> Resolved(last.config, key)]]
  /\ UNCHANGED <<inst, now, cache, db, sweeps, app, calls>>

\* The dispatcher, the transformer and the toggles, each applied once to
\* the arguments the initial state draws.
Arguments ==
  {[op |-> "arguments", of |-> "executeExternalQuery", sql |-> sql,
    params |-> params, dataSource |-> ExternalSource("sqlite", "other"),
    config |-> config] :
     sql \in ProxySql, params \in ProxyParams, config \in ProxyConfigurations}
  \cup {[op |-> "arguments", of |-> "transformRawResults", result |-> result] :
          result \in RawResults}
  \cup {[op |-> "arguments", of |-> "executeSDKQuery",
         opts |-> SdkOptions(q, dataSource)] :
          q \in SampleQueries, dataSource \in SdkSources}
  \cup {[op |-> "arguments", of |-> "getFeature", config |-> config] :
          config \in ToggleConfigurations}

\* The arguments of the object-to-raw conversion and of afterQuery.
ConversionArguments ==
  {[op |-> "arguments", of |-> "to", result |-> result] :
     result \in ObjectResults}
  \cup {[op |-> "arguments", of |-> "afterQuery", sql |-> SelT,
         result |-> result] :
          result \in ReportedResults}

UnitInit ==
  /\ inst = [dataSource |-> InternalSource,
             config |-> Configuration("undefined", "undefined", "undefined")]
  /\ now = 0
  /\ cache = {}
  /\ db = {}
  /\ sweeps = {}
  /\ app = <<>>
  /\ calls = <<>>
  /\ \/ last \in Arguments
     \/ last \in ConversionArguments
UnitNext ==
  \/ CallExecuteExternalQuery
  \/ CallTransformRawResults
  \/ CallExecuteSDKQuery
  \/ CallGetFeature
  \/ CallToRaw
  \/ CallAfterQuery
UnitSpec == UnitInit /\ [][UnitNext]_vars

\* The gateways of one isolate: instances are constructed one after the
\* other, and each handles requests on the module-level app.
BareExternalSource == [tag |-> "ds", source |-> "external", external |-> Undefined]
AppConfigurations ==
  {Toggled(Configuration("undefined", "undefined", "undefined"), "rest", value) :
     value \in Tri}
    \cup {Toggled(Toggled(Configuration("undefined", "undefined", "undefined"),
                          "export", "false"), "import", "false")}
AppOptions ==
  [dataSource : DataSources \cup {BareExternalSource}, config : AppConfigurations]
AppRequests ==
  {[method |-> m, path |-> p, contentType |-> "application/json",
    body |-> Body(JString(SelT), Undefined, Undefined)] :
     m \in {"GET", "POST"},
     p \in {"/query", "/rest/t", "/export/dump", "/import/dump", "/"}}
    \cup {[method |-> "OPTIONS", path |-> "/rest/t",
           contentType |-> "application/json",
           body |-> Body(JString(SelT), Undefined, Undefined)]}

\* new StarbaseDB(options): the instance takes the place of the one before
\* when the constructor returns.
New(options) ==
  /\ inst' = IF constructor(options).status = "ok"
               THEN constructor(options).value ELSE inst
  /\ last' = [op |-> "new", options |-> options, ret |-> constructor(options)]
  /\ UNCHANGED <<now, cache, db, sweeps, app, calls>>

AppInit ==
  /\ inst \in {constructor(options).value :
                 options \in {o \in AppOptions : constructor(o).status = "ok"}}
  /\ now = 0
  /\ cache = {}
  /\ db = {}
  /\ sweeps = {}
  /\ app = <<>>
  /\ calls = <<>>
  /\ last = NoOperation
AppNext ==
  \/ \E options \in AppOptions : New(options)
  \/ \E r \in AppRequests : Handle(r)
  \/ \E cutoff \in sweeps : SweepDeliver(cutoff)
AppSpec == AppInit /\ [][AppNext]_vars

\* The gateway on an engine whose calls may fail.
FaultNext ==
  \/ NextOver(SampleQueries, SampleBatches, SampleRequests)
  \/ \E r \in SampleRequests : HandleThrowing(r)
  \/ \E cutoff \in sweeps : SweepReject(cutoff)
FaultSpec == Init /\ [][FaultNext]_vars

\* Non-raw calls of executeQuery in flight at once on one instance, while
\* the clock runs and a collaborator's raw-mode calls write to the engine.  The
\* event loop runs every call on from each await that has settled.
ConcurrentQueries ==
  {[sql |-> SelT, params |-> Undefined],
   [sql |-> SelT, params |-> JArray(<<JNumber(1)>>)],
   [sql |-> SelX, params |-> Undefined]}
WriteQueries == {[sql |-> PutT, params |-> JArray(<<JNumber(1)>>)]}
ConcurrentNext ==
  \/ \E q \in ConcurrentQueries : Enter(q, FALSE)
  \/ \E i \in 1..MaxCalls : Advance(i)
  \/ \E q \in WriteQueries : CallExecuteQuery(q, TRUE)
  \/ Tick
ConcurrentInit ==
  /\ Init
  /\ Feature(inst.config, "allowlist") # "false"
  /\ Feature(inst.config, "rls") = "undefined"
ConcurrentSpec ==
  /\ ConcurrentInit
  /\ [][ConcurrentNext]_vars
  /\ \A i \in 1..MaxCalls : WF_vars(Advance(i))

\* Every request and every batch, under the scheduling the expiry sweep
\* relies on: requests keep arriving, and the engine runs each DELETE it
\* is sent.
Cutoffs == {t * 1000 : t \in 0..MaxTicks}
LiveNext == NextOver(SampleQueries, SampleBatches, SampleRequests)
LiveSpec ==
  /\ Init
  /\ [][LiveNext]_vars
  /\ WF_vars(\E r \in SampleRequests : Handle(r))
  /\ \A cutoff \in Cutoffs : WF_vars(SweepDeliver(cutoff))

(***************************************************************************)
(* The properties.                                                         *)
(***************************************************************************)
\* The executeQuery passes of the latest operation.
LastPasses ==
  IF last.op = "executeQuery"
    THEN <<[sql |-> last.sql, params |-> last.params, ret |-> last.ret,
            trace |-> last.trace]>>
  ELSE IF last.op \in {"executeTransaction", "handle"} THEN last.passes
  ELSE <<>>

\* Whether the latest operation ran in raw mode.
LastRaw ==
  IF last.op \in {"executeQuery", "executeTransaction"} THEN last.isRaw
  ELSE last.op = "handle" /\ last.request.path = "/query/raw"

\* The kinds of the events of a trace, and the positions of one kind.
Kinds(trace) == {trace[i].ev : i \in DOMAIN trace}
Index(trace, kind) == {i \in DOMAIN trace : trace[i].ev = kind}

\* The statement the security stage of this instance makes of sql, and
\* whether row-level security alters sql.
Rewritten(sql) ==
  applyRLS(sql, RlsFlag(inst.config), Dialect(inst.dataSource),
           inst.dataSource, inst.config)
RlsAlters(sql) == Rewritten(sql) # sql

\* Whether the allowlist of this instance lets sql through.
LetThrough(sql) ==
  isQueryAllowed(sql, AllowlistFlag(inst.config), inst.dataSource, inst.config)

\* The call of executeQuery on q that a collaborator would make now.
CallNow(q, isRaw) ==
  executeQuery(q.sql, q.params, isRaw, inst.dataSource, inst.config,
               cache, db, now)

\* What a call leaves: its outcome, the cache and the engine state; and
\* the statements of the events of a trace.
Leaves(run) == <<run.ret, run.cache, run.db>>
SqlsOf(trace) == {trace[i].sql : i \in DOMAIN trace}

\* A raw call on q leaves the cache as it is and, when the allowlist lets
\* q through, dispatches it.
RawDispatches(q, run) ==
  /\ run.cache = cache
  /\ LetThrough(q.sql) => "dispatch" \in Kinds(run.trace)

\* C1: when executeQuery has been called with (sql, params), not in raw
\* mode, on SQL that row-level security leaves as it is, and the call
\* succeeded and its entry has not expired, the next call with the same
\* (sql, params) returns the cached result, which is what the first call
\* returned, and does not dispatch to the backend.
C1_RepeatedCallServedFromCache ==
  \A q \in QueryInputs :
    (/\ last.op = "executeQuery"
     /\ last.sql = q.sql /\ last.params = q.params
     /\ ~last.isRaw
     /\ last.ret.status = "ok"
     /\ ~RlsAlters(q.sql)
     /\ ~(last.stamp + CacheTTL * 1000 < now))
    => /\ \E e \in cache : /\ SameKey(e, q.sql, q.params)
                           /\ CallNow(q, FALSE).ret = Returned(e.results)
       /\ CallNow(q, FALSE).ret = last.ret
       /\ "dispatch" \notin Kinds(CallNow(q, FALSE).trace)
       /\ CallNow(q, FALSE).db = db

\* C1 witness: a call on unaltered SQL, not in raw mode, that was answered
\* from the entry an earlier identical call stored, without a dispatch.
C1_Witness ==
  /\ last.op = "executeQuery" /\ ~last.isRaw /\ ~RlsAlters(last.sql)
  /\ last.ret.status = "ok"
  /\ "lookup" \in Kinds(last.trace)
  /\ "dispatch" \notin Kinds(last.trace)
  /\ last.stamp < now

\* C2: a statement that row-level security altered is neither looked up in
\* the cache nor stored into it, under its original or its rewritten SQL.
C2_RlsAlteredNeverCached ==
  /\ \A n \in DOMAIN LastPasses :
       RlsAlters(LastPasses[n].sql)
         => Kinds(LastPasses[n].trace) \cap {"lookup", "store"} = {}
  /\ \A e \in cache : \A q \in QueryInputs :
       RlsAlters(q.sql) => e.sql \notin {q.sql, Rewritten(q.sql)}

\* C3: in raw mode executeQuery neither looks the cache up nor stores into
\* it, the call leaves the cache as it was, and every statement that gets
\* past the security stage is dispatched to the backend, whatever the cache
\* holds.
C3_RawBypassesCache ==
  /\ LastRaw =>
       \A n \in DOMAIN LastPasses :
         /\ Kinds(LastPasses[n].trace) \cap {"lookup", "store"} = {}
         /\ LetThrough(LastPasses[n].sql)
              => "dispatch" \in Kinds(LastPasses[n].trace)
         /\ LastPasses[n].ret.status = "ok"
              => "dispatch" \in Kinds(LastPasses[n].trace)
  /\ \A q \in QueryInputs : RawDispatches(q, CallNow(q, TRUE))

\* C3 witness: a raw call that was dispatched although the cache holds a
\* live entry for its (sql, params).
C3_Witness ==
  /\ last.op = "executeQuery" /\ last.isRaw
  /\ last.ret.status = "ok"
  /\ "dispatch" \in Kinds(last.trace)
  /\ \E e \in cache : SameKey(e, last.sql, last.params) /\ ~Expired(e, now)

\* C4: the cache is written only after a backend dispatch that succeeded,
\* and under the SQL and params, as they left the security stage, that the
\* lookup used and that were sent to the backend; a call that fails writes
\* nothing.
C4_StoreAfterSuccessfulDispatch ==
  \A n \in DOMAIN LastPasses :
    /\ LastPasses[n].ret.status = "error" => "store" \notin Kinds(LastPasses[n].trace)
    /\ \A i \in Index(LastPasses[n].trace, "store") :
         /\ LastPasses[n].ret.status = "ok"
         /\ LastPasses[n].trace[i].sql = Rewritten(LastPasses[n].sql)
         /\ \E j \in Index(LastPasses[n].trace, "dispatch") :
              /\ j < i
              /\ LastPasses[n].trace[j].sql = LastPasses[n].trace[i].sql
              /\ LastPasses[n].trace[j].params = LastPasses[n].trace[i].params
         /\ \E k \in Index(LastPasses[n].trace, "lookup") :
              /\ k < i
              /\ LastPasses[n].trace[k].sql = LastPasses[n].trace[i].sql
              /\ LastPasses[n].trace[k].params = LastPasses[n].trace[i].params

\* C4 witness: a call with params that was dispatched, succeeded and stored
\* its result.
C4_Witness ==
  /\ last.op = "executeQuery"
  /\ last.params # Undefined
  /\ last.ret.status = "ok"
  /\ "store" \in Kinds(last.trace)

\* C5: an entry with timestamp + ttl * 1000 < now counts as absent when it
\* is looked up (the statement is dispatched), and, with requests arriving
\* and the engine running the DELETE statements it is sent, the sweep that
\* handle() starts removes it.
C5_ExpiredEntriesAbsentAndSwept ==
  /\ [](\A q \in QueryInputs :
          (/\ LetThrough(q.sql)
           /\ \E e \in cache : /\ SameKey(e, Rewritten(q.sql), q.params)
                               /\ Expired(e, now))
          => /\ "dispatch" \in Kinds(CallNow(q, FALSE).trace)
             /\ \A e \in CallNow(q, FALSE).cache : ~Expired(e, now)
                  \/ ~SameKey(e, Rewritten(q.sql), q.params))
  /\ (\E e \in cache : Expired(e, now)) ~> (\A e \in cache : ~Expired(e, now))

\* C5 witness: an expired entry is in the cache while a sweep that handle()
\* started after it expired is on its way to the engine.
C5_Witness ==
  /\ last.op = "handle"
  /\ \E e \in cache : /\ Expired(e, now)
                      /\ \E cutoff \in sweeps : e \notin Swept(cache, cutoff)

\* C6: every pass checks the allowlist first, on the statement as it was
\* received, then applies the RLS rewrite to that statement, and only then
\* looks the cache up or dispatches, with the statement the rewrite made.
C6_SecurityStagesInOrder ==
  \A n \in DOMAIN LastPasses :
    /\ LastPasses[n].trace[1]
         = Ev("allowlist", LastPasses[n].sql, LastPasses[n].params)
    /\ Len(LastPasses[n].trace) >= 2
         => LastPasses[n].trace[2]
              = Ev("rls", LastPasses[n].sql, LastPasses[n].params)
    /\ \A i \in DOMAIN LastPasses[n].trace :
         LastPasses[n].trace[i].ev \in {"lookup", "dispatch", "store"}
           => /\ i > 2
              /\ LastPasses[n].trace[i].sql = Rewritten(LastPasses[n].sql)

\* C6 witness: a pass that the allowlist let through, that row-level
\* security rewrote, and that went on to the backend.
C6_Witness ==
  \E n \in DOMAIN LastPasses :
    /\ AllowlistFlag(inst.config)
    /\ RlsAlters(LastPasses[n].sql)
    /\ "dispatch" \in Kinds(LastPasses[n].trace)

\* C7: a statement the allowlist rejects makes the call fail, and it is
\* neither dispatched to a backend nor looked up or stored in the cache;
\* the call leaves the cache and the engine as they were.
C7_RejectedNeverRuns ==
  /\ \A n \in DOMAIN LastPasses :
       ~LetThrough(LastPasses[n].sql)
         => /\ LastPasses[n].ret = Thrown(Rejection)
            /\ Kinds(LastPasses[n].trace) \cap {"lookup", "dispatch", "store"} = {}
  /\ \A q \in QueryInputs : \A isRaw \in BOOLEAN :
       ~LetThrough(q.sql)
         => Leaves(CallNow(q, isRaw)) = <<Thrown(Rejection), cache, db>>

\* C7 witness: a call on a statement the allowlist rejects.
C7_Witness ==
  /\ last.op = "executeQuery"
  /\ ~LetThrough(last.sql)
  /\ last.ret = Thrown(Rejection)

\* A query descriptor as the batch contract wants it: sql a string that is
\* not empty once trimmed, params absent, an array or a plain mapping.
WellFormed(queryObj) ==
  /\ queryObj.tag = "object"
  /\ GetKey(queryObj.v, "sql").tag = "string"
  /\ Trim(GetKey(queryObj.v, "sql").v) # <<>>
  /\ GetKey(queryObj.v, "params").tag \in {"undefined", "array", "object"}

\* The batch of the latest request, <<>> when it carries none.
LastTransaction ==
  IF /\ last.op = "handle"
     /\ Route(last.request) # "notFound"
     /\ last.request.contentType = "application/json"
     /\ GetKey(last.request.body.v, "transaction").tag = "array"
    THEN GetKey(last.request.body.v, "transaction").v
    ELSE <<>>

\* C8: a request whose batch holds an element that is not well formed is
\* answered with an error, and none of its elements is executed.
C8_InvalidBatchFailsWhole ==
  (\E i \in DOMAIN LastTransaction : ~WellFormed(LastTransaction[i]))
    => /\ last.response.status >= 400
       /\ last.passes = <<>>

C10_RlsDisabledLeavesSqlAlone ==
  Feature(inst.config, "rls") \in {"undefined", "false"}
    => /\ \A n \in DOMAIN LastPasses :
            \A i \in DOMAIN LastPasses[n].trace :
              LastPasses[n].trace[i].sql = LastPasses[n].sql
       /\ \A q \in QueryInputs : \A isRaw \in BOOLEAN :
            SqlsOf(CallNow(q, isRaw).trace) \subseteq {q.sql}

\* C10 witness: with row-level security off, a statement on the table that
\* has a policy was dispatched.
C10_Witness ==
  /\ Feature(inst.config, "rls") \in {"undefined", "false"}
  /\ last.op = "executeQuery"
  /\ TableOf(last.sql) \in PolicyTables
  /\ "dispatch" \in Kinds(last.trace)

\* The names the hosted proxy is to receive.
Named == [n \in Indices |-> "param" \o ToString(n)]
ColonNamed == [n \in Indices |-> ":param" \o ToString(n)]

\* How many placeholders stand before token i of sql.
Earlier(sql, i) == Cardinality({j \in 1..Len(sql) : j < i /\ sql[j] = "?"})

\* C11: on the hosted-proxy path with array params, the i-th token of the
\* statement sent is `:paramN` where the token was `?`, N being the number
\* of `?` before it, and the params sent are the mapping of param0, param1,
\* ... to the array's values in order; with params that are no array, the
\* `?` tokens and the params are sent as they are.
C11_PlaceholdersNamedInOrder ==
  (last.op = "executeExternalQuery" /\ ApiKey(last.config) # "undefined")
    => /\ last.sent.via = "outerbase"
       /\ Len(last.sent.sql) = Len(last.sql)
       /\ \A i \in DOMAIN last.sql :
            last.sql[i] \notin {"?", "\n"} => last.sent.sql[i] = last.sql[i]
       /\ IsArray(last.params)
            => /\ \A i \in DOMAIN last.sql :
                    last.sql[i] = "?"
                      => last.sent.sql[i]
                           = ColonNamed[Earlier(last.sql, i)]
               /\ last.sent.params.tag = "object"
               /\ Len(last.sent.params.v) = Len(last.params.v)
               /\ \A n \in DOMAIN last.params.v :
                    last.sent.params.v[n]
                      = <<Named[n - 1], last.params.v[n]>>
       /\ ~IsArray(last.params)
            => /\ \A i \in DOMAIN last.sql :
                    last.sql[i] = "?" => last.sent.sql[i] = "?"
               /\ last.sent.params = last.params

\* C11 witness: a statement with two placeholders and an array of two
\* values went out on the hosted-proxy path.
C11_Witness ==
  /\ last.op = "executeExternalQuery"
  /\ last.sent.via = "outerbase"
  /\ IsArray(last.params) /\ Len(last.params.v) = 2
  /\ Cardinality({i \in DOMAIN last.sql : last.sql[i] = "?"}) = 2
  /\ \E i \in DOMAIN last.sent.sql : last.sent.sql[i] = ":param1"

\* The column names are pairwise distinct and none is integer-like: the
\* keys of the row object are then the columns, in their order.
PlainColumns(columns) ==
  /\ \A i, j \in DOMAIN columns : columns[i] = columns[j] => i = j
  /\ \A i \in DOMAIN columns : ~IntegerLike(columns[i])

\* C12 (amended): a raw result with at least one row and with plain columns
\* comes back from the two conversions with the same columns in the same
\* order and the same rows; a raw result with no rows comes back with no
\* columns and no rows, whatever its columns were.
C12_RoundTripUnlessEmpty ==
  last.op = "transformRawResults"
    => /\ (Len(last.result.v.rows) > 0 /\ PlainColumns(last.result.v.columns))
            => /\ last.raw.v.columns = last.result.v.columns
               /\ last.raw.v.rows = last.result.v.rows
       /\ Len(last.result.v.rows) = 0
            => /\ last.raw.v.columns = <<>>
               /\ last.raw.v.rows = <<>>

\* C12 witness: two rows under the columns a and b went through both
\* conversions and came back as they were.
C12_Witness ==
  /\ last.op = "transformRawResults"
  /\ last.result.v.columns = <<"a", "b">>
  /\ Len(last.result.v.rows) = 2
  /\ last.result.v.rows[1] # last.result.v.rows[2]
  /\ Len(last.objects.v) = 2
  /\ last.raw.v.rows = last.result.v.rows

\* C12 as stated: every raw result, the ones with columns and no rows
\* included, comes back with the same columns and the same rows.
C12_RoundTripAlways ==
  last.op = "transformRawResults"
    => /\ last.raw.v.columns = last.result.v.columns
       /\ last.raw.v.rows = last.result.v.rows

\* An external data source that comes without its connection descriptor.
NoDescriptor(dataSource) ==
  dataSource.source = "external" /\ Falsy(External(dataSource))

\* C13: a construction from an external data source without a descriptor
\* throws the configuration error and yields no instance: the instance in
\* use, the instances whose routes app holds and the instance of every
\* handle() call all have a descriptor or are internal.
C13_NoDescriptorNoInstance ==
  /\ (last.op = "new" /\ NoDescriptor(last.options.dataSource))
       => last.ret = Thrown("No external data sources available.")
  /\ ~NoDescriptor(inst.dataSource)
  /\ \A i \in 1..Len(app) : ~NoDescriptor(app[i].dataSource)
  /\ last.op = "handle" => ~NoDescriptor(last.this.dataSource)

\* C13 witness: after a request was handled, a construction without a
\* descriptor was attempted and threw.
C13_Witness ==
  /\ last.op = "new"
  /\ NoDescriptor(last.options.dataSource)
  /\ last.ret.status = "error"
  /\ app # <<>>

\* The response of the isInternalSource middleware.
InternalOnly ==
  Response(Undefined, "Function is only available for internal data source.", 400)

\* C14: a GET or POST request to a /rest/* path, handled by an instance with
\* an external data source that has REST enabled and is the only one to
\* have added routes to app, is answered with the internal-only error and
\* is not handed to the REST layer.
C14_ExternalRestRejected ==
  (/\ last.op = "handle"
   /\ last.this.dataSource.source = "external"
   /\ getFeature(last.this.config, "rest", TRUE)
   /\ app = <<last.this>>
   /\ last.request.method \in {"GET", "POST"}
   /\ last.request.path = "/rest/t")
    => /\ last.response = InternalOnly
       /\ last.layer # "rest"

\* The request fails one of queryRoute's own validations: its content
\* type, an element of its batch, or the sql or params of its single
\* statement.
FailsValidation(request) ==
  \/ request.contentType # "application/json"
  \/ /\ IsArray(GetKey(request.body.v, "transaction"))
     /\ Len(GetKey(request.body.v, "transaction").v) > 0
     /\ Throwing(GetKey(request.body.v, "transaction")) # {}
  \/ /\ ~(/\ IsArray(GetKey(request.body.v, "transaction"))
          /\ Len(GetKey(request.body.v, "transaction").v) > 0)
     /\ \/ BadSql(GetKey(request.body.v, "sql"))
        \/ BadParams(GetKey(request.body.v, "params"))

\* C15: a request to a query endpoint that fails a validation is answered
\* with a status from 400 to 499.
C15_ValidationFailureIsClientError ==
  (/\ last.op = "handle"
   /\ last.layer \in {"query", "query/raw"}
   /\ FailsValidation(last.request))
    => last.response.status \in 400..499

\* The request carries a single statement, not a batch.
SingleStatement(request) ==
  /\ request.contentType = "application/json"
  /\ ~(/\ IsArray(GetKey(request.body.v, "transaction"))
       /\ Len(GetKey(request.body.v, "transaction").v) > 0)

\* The params are absent, an array or a plain mapping.
ParamsShape(params) ==
  params = Undefined \/ IsArray(params) \/ params.tag = "object"

\* C16: a single statement is accepted exactly when its sql is a string
\* that is not empty after trimming and its params are absent, an array or
\* a plain mapping; otherwise the answer is the validation error 400 and
\* nothing is executed.
C16_AcceptedIffWellShaped ==
  (/\ last.op = "handle"
   /\ last.layer \in {"query", "query/raw"}
   /\ SingleStatement(last.request))
    => IF /\ ~BadSql(GetKey(last.request.body.v, "sql"))
          /\ ParamsShape(GetKey(last.request.body.v, "params"))
         THEN last.response.status # 400
         ELSE last.response.status = 400 /\ last.passes = <<>>

\* The toggles that are off when unset.
OffByDefault == {"allowlist", "rls"}

\* C17: an unset toggle resolves to disabled for allowlist and rls and to
\* enabled for rest, export, import and websocket; a set toggle resolves to
\* its configured value, an explicit false included.
C17_TogglesResolve ==
  last.op = "getFeature"
    => \A key \in FeatureNames :
         last.resolved[key]
           = IF Feature(last.config, key) = "undefined"
               THEN key \notin OffByDefault
               ELSE Feature(last.config, key) = "true"

\* C17 witness: a configuration with rest set to false was resolved: rest
\* is disabled, the unset websocket is enabled, the unset rls is disabled.
C17_Witness ==
  /\ last.op = "getFeature"
  /\ Feature(last.config, "rest") = "false"
  /\ ~last.resolved["rest"]
  /\ last.resolved["websocket"]
  /\ ~last.resolved["rls"]

\* The response of the not-found handler.
NotFound == Response(Undefined, "Not found", 404)

\* C18: a GET or POST request to a /rest/* path that an instance with REST
\* disabled handles gets the not-found response and is not handed to the
\* REST layer, whatever handle() calls came before.
C18_RestDisabledNotServed ==
  (/\ last.op = "handle"
   /\ ~getFeature(last.this.config, "rest", TRUE)
   /\ last.request.method \in {"GET", "POST"}
   /\ last.request.path = "/rest/t")
    => /\ last.layer = "notFound"
       /\ last.response = NotFound

\* The dialects and providers executeSDKQuery has a connection for.
SupportedDialects == {"postgres", "mysql"}
SupportedProviders == {"cloudflare-d1", "starbase", "turso"}

PathOf(dataSource, config) ==
  IF ApiKey(config) # "undefined" THEN "outerbase"
  ELSE Adapter(External(dataSource))

\* What the dispatch of the event ev of the latest call put on the wire.
Wire(ev) ==
  DispatchExternal(ev.sql, ev.params, last.isRaw, inst.dataSource,
                   inst.config).sent

\* C20: for an external data source, every statement that executeQuery
\* dispatches goes out on the one path its configuration selects, and on
\* the driver path it goes out with the SQL and params the security stage
\* and the hook left.
C20_ExternalOnOnePath ==
  (last.op = "executeQuery" /\ inst.dataSource.source = "external")
    => \A j \in Index(last.trace, "dispatch") :
         /\ Wire(last.trace[j]).via = PathOf(inst.dataSource, inst.config)
         /\ Wire(last.trace[j]).via # "outerbase"
              => /\ Wire(last.trace[j]).sql = last.trace[j].sql
                 /\ Wire(last.trace[j]).params = last.trace[j].params

\* C21: a failure of the expiry sweep, raised by the engine call or by the
\* promise the call returns, is caught and logged by expireCache, and the
\* request that started the sweep gets the response it would have got.
C21_SweepFailureCaughtAndLogged ==
  ("failure" \in DOMAIN last) =>
    /\ last.sweep.logged
    /\ last.sweep.promise = "fulfilled"
    /\ last.op = "handle" => last.response = last.unfailing.response

\* The value of the row mapping under the column: the value of the pair
\* that has the column as its key, undefined when there is none.
Under(row, column, value) ==
  \/ \E i \in 1..Len(row) : row[i] = <<column, value>>
  \/ /\ \A i \in 1..Len(row) : row[i][1] # column
     /\ value = Undefined

\* raw is the raw form of the row mappings objects: its columns are the
\* keys of the first one in their order, its rows are the values under
\* those columns, and it reports every row as read and none as written.
RawFormOf(objects, raw) ==
  /\ raw.tag = "raw"
  /\ Len(raw.v.columns) = (IF Len(objects) = 0 THEN 0 ELSE Len(objects[1]))
  /\ \A c \in 1..Len(raw.v.columns) : raw.v.columns[c] = objects[1][c][1]
  /\ Len(raw.v.rows) = Len(objects)
  /\ \A r \in 1..Len(objects) :
       /\ Len(raw.v.rows[r]) = Len(raw.v.columns)
       /\ \A c \in 1..Len(raw.v.columns) :
            Under(objects[r], raw.v.columns[c], raw.v.rows[r][c])
  /\ raw.v.meta.rows_read = Len(objects)
  /\ raw.v.meta.rows_written = 0

\* C22: the object-to-raw conversion gives the keys of the first row as the
\* columns (none when there is no row), every row's values under those
\* columns in that order, rows_read = the number of rows and rows_written
\* = 0; what afterQuery returns for a raw-mode call is that conversion of
\* the backend's rows, so it reports rows_written = 0 whatever the backend
\* reported.
C22_ToRawProjectsFirstRowKeys ==
  /\ last.op = "to" => RawFormOf(last.result.v, last.raw)
  /\ last.op = "afterQuery"
       => /\ RawFormOf(last.objects.v, last.ret)
          /\ last.ret.v.meta.rows_written = 0

\* C22 witness: the backend answered a raw-mode call with two rows under
\* the columns a and b and reported one written row; afterQuery returned
\* the two rows under a and b with rows_read = 2 and rows_written = 0.
C22_Witness ==
  /\ last.op = "afterQuery"
  /\ last.result.v.meta.rows_written = 1
  /\ last.result.v.columns = <<"a", "b">>
  /\ Len(last.result.v.rows) = 2
  /\ last.ret.v.columns = <<"a", "b">>
  /\ last.ret.v.rows = last.result.v.rows
  /\ last.ret.v.meta = [rows_read |-> 2, rows_written |-> 0]

\* The calls that look up and store under the key of the call c.
SameKeyCalls(c) ==
  {j \in 1..Len(calls) : /\ ~calls[j].isRaw
                          /\ calls[j].sql = c.sql
                          /\ calls[j].params = c.params}

\* The entries of the cache under the key the call c stores.
EntriesOf(c) == {e \in cache : SameKey(e, c.rlsSQL, c.hooked.params)}

\* The call has stored, and no call with its key has stored after it.
LatestWrite(i) ==
  /\ calls[i].wrote > 0
  /\ \A j \in SameKeyCalls(calls[i]) : calls[j].wrote <= calls[i].wrote

\* A call that fails alone: the allowlist rejects its statement, or the
\* backend has no such table or no connection.
FailsAlone(c) ==
  \/ ~LetThrough(c.sql)
  \/ TableOf(c.sql) \notin EngineTables
  \/ inst.dataSource.source # "internal"

\* Every call that was made has returned or thrown.
AllDone == \A i \in 1..Len(calls) : calls[i].at = "done"

\* C23, at every moment: a non-raw call that has returned or thrown has a
\* result unless it fails alone too, whatever the other calls did; and the
\* cache holds exactly one entry for a key that was stored, with the value
\* of the latest store.
NoInterference ==
  \A i \in 1..Len(calls) :
    /\ (calls[i].at = "done" /\ ~calls[i].isRaw /\ ~FailsAlone(calls[i]))
         => /\ calls[i].ret.status = "ok"
            /\ calls[i].ret.value.tag = "rows"
    /\ (~calls[i].isRaw /\ LatestWrite(i))
         => /\ Cardinality(EntriesOf(calls[i])) = 1
            /\ \A e \in EntriesOf(calls[i]) : e.results = calls[i].response

\* C23: under every interleaving of the calls in flight, the calls for one
\* (sql, params) each get their result, the cache ends with one entry for
\* the key that holds the value of the later store, and every call runs to
\* its end whatever position the others are in.
C23_ConcurrentCallsLastWriteWins ==
  /\ []NoInterference
  /\ <>[]AllDone

\* C23 witness: two calls for the same (sql, params) both missed the cache
\* before either stored, got different rows from the engine, and both
\* stored; the cache holds the one entry of the second store.
C23_Witness ==
  /\ now = 0
  /\ Len(calls) >= 2
  /\ calls[1].sql = calls[2].sql
  /\ calls[1].params = calls[2].params
  /\ calls[1].at = "done"
  /\ calls[2].at = "done"
  /\ calls[1].wrote = 2
  /\ calls[2].wrote = 1
  /\ calls[1].response # calls[2].response
  /\ \A e \in EntriesOf(calls[1]) : e.results = calls[1].response

\* C24: whatever handle() calls came before on the shared app, a query
\* request is run by the instance whose handle() received it, with that
\* instance's dataSource and config, and every request is answered by the
\* layer that the routes of that instance alone select.
C24_ServedByReceivingInstance ==
  last.op = "handle"
    => /\ last.layer \in {"query", "query/raw"}
            => /\ last.self.dataSource = last.this.dataSource
               /\ last.self.config = last.this.config
       /\ last.layer = Layer(last.request, <<last.this>>)
====
